---- MODULE Spec2Model ----
(***************************************************************************)
(* Recording bot: a host process (src/index.js) drives a browser page      *)
(* (src/app.js) that records the tracks of a video room.                   *)
(*                                                                         *)
(* The specifications share the variables below:                           *)
(*   Spec       the host start-up and close sequence together with the     *)
(*              page's room session (participants, tracks, recorders,      *)
(*              idle timers, shutdown);                                    *)
(*   SpecRoom   the same in a room without recordable tracks;              *)
(*   SpecSession  the recording session after the host's start-up;         *)
(*   SpecWrite  the data path of one Recording File: createRecording,      *)
(*              dataavailable, FileReader, the bridge and fs.appendFile;   *)
(*   SpecCodec  the transport codec arrayBufferToString /                  *)
(*              stringToArrayBuffer on bounded inputs.                     *)
(***************************************************************************)
EXTENDS Integers, Sequences, FiniteSets, TLC

(***************************************************************************)
(* Bounds of the model.                                                    *)
(***************************************************************************)
MaxTracks == 2
MaxRecorders == 2
MaxParticipants == 2
MaxTimers == 2

(***************************************************************************)
(* Program constants.                                                      *)
(***************************************************************************)
roomEndingTimeoutSeconds == 60
roomStartingTimeoutSeconds == 600

VARIABLES
  \* ---- host, src/index.js
  hostPc,        \* position of main(): the start-up stage in flight
  server,        \* server !== null
  browser,       \* browser !== null
  page,          \* page !== null
  shouldClose,   \* index.js shouldClose
  isClosing,     \* index.js isClosing
  closers,       \* the invocations of close() that passed the guard
  stageLog,      \* history: the teardown stages begun and finished, in order
  guardHit,      \* history: some invocation of close() returned at the guard
  exitCode,      \* -1 while the process runs, else the status of process.exit
  parentCloseCalls, \* parentClose bridge calls in flight, page -> host (FIFO)
  \* ---- page, src/app.js
  pagePc,        \* the page: "absent" (no script yet), "loaded", then the
                 \* position of main(token, roomSid): connecting/running/failed
  roomState,     \* "none" (room === null), "connected", "disconnected"
  participants,  \* room.participants
  subscribed,    \* the tracks the SDK has subscribed and not unsubscribed
  recs,          \* every MediaRecorder created, in creation order
  recorders,     \* the Map recorders: track id -> index in recs (0: absent)
  videos,        \* track id whose resize listener is on the <video> (0: none)
  subscriptionCounts, \* the Map subscriptionCounts, by trackIndex
  recorderCount, \* app.js recorderCount
  emptyRoomTimeout,   \* app.js emptyRoomTimeout: a timer id, 0 for null
  timers,        \* every timer armed with setTimeout(parentClose, ...)
  shutdownPc,    \* the promise of shutdown(): idle/requested/pending/resolved,
                 \* or rejecting/rejected when the page has no shutdown()
  pageIsClosing, \* app.js isClosing
  onceFired,     \* the room.once handlers that have run
  \* ---- the data path of one Recording File (SpecWrite)
  wPhase,        \* the Recorder: none/recording/pausing/stopping/stopped
  owed,          \* dataavailable events queued by requestData() and stop()
  produced,      \* the number of non-empty chunks produced so far
  reading,       \* chunks whose FileReader.readAsArrayBuffer is in flight
  bridge,        \* createRecording/appendRecording calls in flight (FIFO)
  writing,       \* fs.appendFile operations in flight on the host
  file,          \* the Recording File: the chunks appended, in order
  meta,          \* the metadata file has been written
  \* ---- the transport codec (SpecCodec)
  codecPc,       \* "off", "input", "encoded", "decoded"
  buffer,        \* the bytes of the ArrayBuffer given to the page's encoder
  encoded,       \* the string sent over the bridge, as UTF-16 code units
  decoded        \* the bytes the host appends

hostVars == <<hostPc, server, browser, page, shouldClose, isClosing, closers,
              stageLog, guardHit, exitCode, parentCloseCalls>>
pageVars == <<pagePc, roomState, participants, subscribed, recs, recorders,
              videos, subscriptionCounts, recorderCount, emptyRoomTimeout,
              timers, shutdownPc, pageIsClosing, onceFired>>
\* The variables of SpecWrite and SpecCodec, constant under Spec and SpecRoom.
writeVars == <<wPhase, owed, produced, reading, bridge, writing, file, meta>>
codecVars == <<codecPc, buffer, encoded, decoded>>
auxVars == <<writeVars, codecVars>>
vars == <<hostVars, pageVars, auxVars>>

TrackIds == 1..MaxTracks
Participants == 1..MaxParticipants
ErrorKinds == {"none", "stack", "nostack"}
\* The error of the room's 'disconnected' event as the bridge delivers it:
\* absent, or an error taken to arrive with its stack.
DisconnectErrors == {"none", "stack"}

(***************************************************************************)
(* Host: close(error), src/index.js 148-191.                               *)
(*                                                                         *)
(* error is "none" (no argument, undefined or null), "stack" (an Error     *)
(* whose stack is a string) or "nostack" (a truthy value with no stack:    *)
(* the string 'Room ended', an object that lost its stack on the bridge).  *)
(***************************************************************************)

\* indent(str) calls str.split: it throws a TypeError when str is undefined.
indentThrows(error) == error = "nostack"

Log(s) == stageLog' = stageLog \o s

\* process.exit(1) when error is truthy, process.exit() otherwise.
ExitStatus(error) == IF error # "none" THEN 1 ELSE 0

\* close() without its guard: every invocation goes on.
closeGuardMissing == TRUE

\* The guard of close(): an invocation goes on only when isClosing is false.
closeGuard == ~isClosing

\* page.evaluate(`shutdown()`) in a page whose script has not run: shutdown
\* is not defined there and the evaluation rejects.
evaluateShutdown == IF pagePc = "absent" THEN "rejecting" ELSE "requested"

\* close(error), from its call to its first await.  pageNow is the value of
\* the global page when the call is made.
close(error, pageNow) ==
  IF ~closeGuard
  THEN /\ guardHit' = TRUE
       /\ UNCHANGED <<isClosing, closers, stageLog, shutdownPc>>
  ELSE /\ isClosing' = TRUE
       /\ UNCHANGED guardHit
       /\ IF indentThrows(error)
          THEN /\ closers' = Append(closers, [pc |-> "threw", error |-> error])
               /\ UNCHANGED <<stageLog, shutdownPc>>
          ELSE IF pageNow
          THEN /\ closers' = Append(closers, [pc |-> "awaitShutdown", error |-> error])
               /\ Log(<<"shutdown">>)
               /\ shutdownPc' = evaluateShutdown
          ELSE /\ closers' = Append(closers, [pc |-> "grace", error |-> error])
               /\ Log(<<"grace">>)
               /\ UNCHANGED shutdownPc

Running == exitCode = -1

\* close() going on to the 10 s wait without awaiting shutdown().
CloseWithoutAwait(i) ==
  /\ Running
  /\ closers[i].pc = "awaitShutdown"
  /\ closers' = [closers EXCEPT ![i].pc = "grace"]
  /\ Log(<<"shutdownDone", "grace">>)
  /\ UNCHANGED <<hostPc, server, browser, page, shouldClose, isClosing,
                 guardHit, exitCode, parentCloseCalls, pageVars>>
  /\ UNCHANGED auxVars

\* await page.evaluate(`shutdown()`) returns; the 10 s wait begins.
CloseAfterShutdown(i) ==
  /\ Running
  /\ closers[i].pc = "awaitShutdown"
  /\ shutdownPc = "resolved"
  /\ closers' = [closers EXCEPT ![i].pc = "grace"]
  /\ Log(<<"shutdownDone", "grace">>)
  /\ UNCHANGED <<hostPc, server, browser, page, shouldClose, isClosing,
                 guardHit, exitCode, parentCloseCalls, pageVars>>
  /\ UNCHANGED auxVars

\* await page.evaluate(`shutdown()`) rejects: close() has no handler for it
\* and ends there; its caller has none either (the signal handler drops the
\* promise, main's catch calls close(error), which returns at the guard).
CloseShutdownRejects(i) ==
  /\ Running
  /\ closers[i].pc = "awaitShutdown"
  /\ shutdownPc = "rejecting"
  /\ shutdownPc' = "rejected"
  /\ closers' = [closers EXCEPT ![i].pc = "threw"]
  /\ UNCHANGED <<hostPc, server, browser, page, shouldClose, isClosing,
                 stageLog, guardHit, exitCode, parentCloseCalls>>
  /\ UNCHANGED <<pagePc, roomState, participants, subscribed, recs, recorders,
                 videos, subscriptionCounts, recorderCount, emptyRoomTimeout,
                 timers, pageIsClosing, onceFired>>
  /\ UNCHANGED auxVars

\* The 10 s wait is over: server.close(), then the page, the browser, exit.
CloseAfterGrace(i) ==
  /\ Running
  /\ closers[i].pc = "grace"
  /\ LET s == <<"graceDone">> \o (IF server THEN <<"serverClose">> ELSE <<>>)
     IN IF page
        THEN /\ closers' = [closers EXCEPT ![i].pc = "awaitPageClose"]
             /\ Log(s \o <<"pageClose">>)
             /\ UNCHANGED exitCode
        ELSE IF browser
        THEN /\ closers' = [closers EXCEPT ![i].pc = "awaitBrowserClose"]
             /\ Log(s \o <<"browserClose">>)
             /\ UNCHANGED exitCode
        ELSE /\ closers' = [closers EXCEPT ![i].pc = "exited"]
             /\ Log(s \o <<"exit">>)
             /\ exitCode' = ExitStatus(closers[i].error)
  /\ UNCHANGED <<hostPc, server, browser, page, shouldClose, isClosing,
                 guardHit, parentCloseCalls, pageVars>>
  /\ UNCHANGED auxVars

\* await page.evaluate('close()') returns: the page ran its own close().
CloseAfterPageClose(i) ==
  /\ Running
  /\ closers[i].pc = "awaitPageClose"
  /\ pageIsClosing' = TRUE
  /\ IF browser
     THEN /\ closers' = [closers EXCEPT ![i].pc = "awaitBrowserClose"]
          /\ Log(<<"pageCloseDone", "browserClose">>)
          /\ UNCHANGED exitCode
     ELSE /\ closers' = [closers EXCEPT ![i].pc = "exited"]
          /\ Log(<<"pageCloseDone", "exit">>)
          /\ exitCode' = ExitStatus(closers[i].error)
  /\ UNCHANGED <<hostPc, server, browser, page, shouldClose, isClosing,
                 guardHit, parentCloseCalls>>
  /\ UNCHANGED <<pagePc, roomState, participants, subscribed, recs, recorders,
                 videos, subscriptionCounts, recorderCount, emptyRoomTimeout,
                 timers, shutdownPc, onceFired>>
  /\ UNCHANGED auxVars

\* await browser.close() returns; process.exit.
CloseAfterBrowserClose(i) ==
  /\ Running
  /\ closers[i].pc = "awaitBrowserClose"
  /\ closers' = [closers EXCEPT ![i].pc = "exited"]
  /\ Log(<<"browserCloseDone", "exit">>)
  /\ exitCode' = ExitStatus(closers[i].error)
  /\ UNCHANGED <<hostPc, server, browser, page, shouldClose, isClosing,
                 guardHit, parentCloseCalls, pageVars>>
  /\ UNCHANGED auxVars


(***************************************************************************)
(* Host: main(), src/index.js 47-138, the signal handlers and the bridge.  *)
(***************************************************************************)

\* A start-up stage that goes on to the next without looking at shouldClose.
CheckpointSkips(next, pageNow) ==
  /\ hostPc' = next
  /\ UNCHANGED <<isClosing, closers, stageLog, guardHit, shutdownPc>>

\* if (shouldClose) { await close(); return; } after a start-up stage.
Checkpoint(next, pageNow) ==
  IF shouldClose
  THEN /\ close("none", pageNow)
       /\ hostPc' = "returned"
  ELSE /\ hostPc' = next
       /\ UNCHANGED <<isClosing, closers, stageLog, guardHit, shutdownPc>>

pageRest == <<pagePc, roomState, participants, subscribed, recs, recorders,
              videos, subscriptionCounts, recorderCount, emptyRoomTimeout,
              timers, pageIsClosing, onceFired>>

\* server = await listen(port)
ListenDone ==
  /\ Running
  /\ hostPc = "listen"
  /\ server' = TRUE
  /\ Checkpoint("launch", page)
  /\ UNCHANGED <<browser, page, shouldClose, exitCode, parentCloseCalls, pageRest>>
  /\ UNCHANGED auxVars

\* browser = await puppeteer.launch(...)
LaunchDone ==
  /\ Running
  /\ hostPc = "launch"
  /\ browser' = TRUE
  /\ Checkpoint("newPage", page)
  /\ UNCHANGED <<server, page, shouldClose, exitCode, parentCloseCalls, pageRest>>
  /\ UNCHANGED auxVars

\* page = await browser.newPage()
NewPageDone ==
  /\ Running
  /\ hostPc = "newPage"
  /\ page' = TRUE
  /\ Checkpoint("goto", TRUE)
  /\ UNCHANGED <<server, browser, shouldClose, exitCode, parentCloseCalls, pageRest>>
  /\ UNCHANGED auxVars

\* The page navigated to by page.goto runs its script: main, shutdown and
\* close are defined on window.
PageLoaded ==
  /\ Running
  /\ hostPc = "goto"
  /\ pagePc = "absent"
  /\ pagePc' = "loaded"
  /\ UNCHANGED <<hostVars, roomState, participants, subscribed, recs, recorders,
                 videos, subscriptionCounts, recorderCount, emptyRoomTimeout,
                 timers, shutdownPc, pageIsClosing, onceFired>>
  /\ UNCHANGED auxVars

\* await page.goto(..., { waitUntil: 'domcontentloaded' })
GotoDone ==
  /\ Running
  /\ hostPc = "goto"
  /\ pagePc = "loaded"
  /\ Checkpoint("expose", page)
  /\ UNCHANGED <<server, browser, page, shouldClose, exitCode, parentCloseCalls,
                 pageRest>>
  /\ UNCHANGED auxVars

\* await Promise.all([page.exposeFunction(...), ...]); then main(token, roomSid)
\* is evaluated in the page, which starts connecting to the room.
ExposeDone ==
  /\ Running
  /\ hostPc = "expose"
  /\ Checkpoint("evalMain", page)
  /\ pagePc' = IF hostPc' = "evalMain" THEN "connecting" ELSE pagePc
  /\ UNCHANGED <<server, browser, page, shouldClose, exitCode, parentCloseCalls>>
  /\ UNCHANGED <<roomState, participants, subscribed, recs, recorders, videos,
                 subscriptionCounts, recorderCount, emptyRoomTimeout, timers,
                 pageIsClosing, onceFired>>
  /\ UNCHANGED auxVars

\* await page.evaluate(`main(...)`) returns the room and participant sids.
EvalMainDone ==
  /\ Running
  /\ hostPc = "evalMain"
  /\ pagePc = "running"
  /\ Checkpoint("returned", page)
  /\ UNCHANGED <<server, browser, page, shouldClose, exitCode, parentCloseCalls,
                 pageRest>>
  /\ UNCHANGED auxVars

\* A start-up stage rejects: main(configuration).catch(error => {
\*   shouldClose = true; close(error); }).  In the last stage it is the
\* page's main that throws (connect rejects).
StartupFail ==
  /\ Running
  /\ hostPc \in {"listen", "launch", "newPage", "goto", "expose", "evalMain"}
  /\ hostPc = "evalMain" => pagePc = "connecting"
  /\ hostPc' = "failed"
  /\ pagePc' = IF hostPc = "evalMain" THEN "failed" ELSE pagePc
  /\ shouldClose' = TRUE
  /\ close("stack", page)
  /\ UNCHANGED <<server, browser, page, exitCode, parentCloseCalls>>
  /\ UNCHANGED <<roomState, participants, subscribed, recs, recorders, videos,
                 subscriptionCounts, recorderCount, emptyRoomTimeout, timers,
                 pageIsClosing, onceFired>>
  /\ UNCHANGED auxVars

\* process.on(signal, () => { shouldClose = true; close(); })
Signal ==
  /\ Running
  /\ shouldClose' = TRUE
  /\ close("none", page)
  /\ UNCHANGED <<hostPc, server, browser, page, exitCode, parentCloseCalls,
                 pageRest>>
  /\ UNCHANGED auxVars

\* page.exposeFunction('parentClose', close): the host runs a bridge call.
HostParentClose ==
  /\ Running
  /\ parentCloseCalls # <<>>
  /\ close(Head(parentCloseCalls), page)
  /\ parentCloseCalls' = Tail(parentCloseCalls)
  /\ UNCHANGED <<hostPc, server, browser, page, shouldClose, exitCode, pageRest>>
  /\ UNCHANGED auxVars


(***************************************************************************)
(* Page: the recorders, src/app.js 119-316.                                *)
(*                                                                         *)
(* A recorder of recs is [track, idx, phase, started, cb]:                 *)
(*   phase   "recording" (MediaRecorder.state 'recording', from start()),  *)
(*           "pausing"   (pause() called, state 'paused', onpause pending),*)
(*           "stopping"  (onpause ran requestData() and stop(), state      *)
(*                        'inactive', onstop pending), "stopped";          *)
(*   started the start event has fired (onstart ran);                      *)
(*   cb      the stopped_callback given to trackUnsubscribed: "none" while *)
(*           no stop was requested, "noop" (the room's trackUnsubscribed   *)
(*           handler), "shutdown" (shutdown's callback), "restart" (the    *)
(*           resize listener's callback).                                  *)
(***************************************************************************)

\* All modelled tracks are published by participant 1; odd ids are video.
Identity(t) == 1
Kind(t) == IF t % 2 = 1 THEN "video" ELSE "audio"
\* const trackIndex = `${identity}.${track.kind}`
TrackIndex(t) == <<Identity(t), Kind(t)>>
TrackIndexes == {TrackIndex(t) : t \in TrackIds}

Store == [recs |-> recs, recorders |-> recorders, videos |-> videos,
          subscriptionCounts |-> subscriptionCounts]

ApplyStore(st) ==
  /\ recs' = st.recs
  /\ recorders' = st.recorders
  /\ videos' = st.videos
  /\ subscriptionCounts' = st.subscriptionCounts

\* The subscription count taken from the map without the increment.
nextSubscriptionCountSame(n) == IF n = 0 THEN 1 ELSE n

\* let subscriptionCount = subscriptionCounts.get(trackIndex) || 0;
\* subscriptionCount++;
nextSubscriptionCount(n) == n + 1

\* startRecorder(stream, track, identity): the next subscription index, the
\* Recording File, a new MediaRecorder put in recorders, recorder.start().
startRecorder(st, t) ==
  LET n == nextSubscriptionCount(st.subscriptionCounts[TrackIndex(t)])
  IN [st EXCEPT
        !.subscriptionCounts[TrackIndex(t)] = n,
        !.recs = Append(@, [track |-> t, idx |-> n, phase |-> "recording",
                            started |-> FALSE, cb |-> "none"]),
        !.recorders[t] = Len(st.recs) + 1]

\* record(track, participant): a video track gets the participant's <video>
\* element (a clone without the old listener) and a resize listener.
record(st, t) ==
  IF Kind(t) = "video"
  THEN startRecorder([st EXCEPT !.videos[Identity(t)] = t], t)
  ELSE startRecorder(st, t)

\* trackUnsubscribed without recorders.delete and without the test of the
\* recorder's state: a later request replaces the handlers of a recorder
\* that is already pausing.
trackUnsubscribedAgain(st, t, cb) ==
  LET i == st.recorders[t]
  IN IF i # 0 /\ st.recs[i].phase \in {"recording", "pausing"}
     THEN [st EXCEPT !.recs[i].phase = "pausing",
                     !.recs[i].cb = cb]
     ELSE st

\* trackUnsubscribed(trackid, stopped_callback)
trackUnsubscribed(st, t, cb) ==
  LET i == st.recorders[t]
  IN IF i # 0 /\ st.recs[i].phase = "recording"
     THEN [st EXCEPT !.recorders[t] = 0,
                     !.recs[i].phase = "pausing",
                     !.recs[i].cb = cb]
     ELSE [st EXCEPT !.recorders[t] = 0]

Least(T) == CHOOSE x \in T : \A y \in T : x <= y

\* participants.forEach(p => p.tracks.forEach(t => trackSubscribed(t, p)))
RECURSIVE recordAll(_, _)
recordAll(st, T) ==
  IF T = {} THEN st ELSE recordAll(record(st, Least(T)), T \ {Least(T)})

\* recorders.forEach((recorder, trackid) => trackUnsubscribed(trackid, callback))
RECURSIVE unsubscribeAll(_, _, _)
unsubscribeAll(st, T, cb) ==
  IF T = {} THEN st
  ELSE unsubscribeAll(trackUnsubscribed(st, Least(T), cb), T \ {Least(T)}, cb)

InMap == {t \in TrackIds : recorders[t] # 0}

\* Recorders still to be created by a pending resize restart.
PendingRestarts ==
  Cardinality({i \in 1..Len(recs) : recs[i].cb = "restart" /\ recs[i].phase # "stopped"})
\* The model creates MaxRecorders Recorders at most.  A resize is taken only
\* when its restart has room; a subscription may use that room first.
RecorderBudget == MaxRecorders - Len(recs) - PendingRestarts

\* The page runs until the host process exits (the browser dies with it).
PageAlive == Running /\ pagePc = "running"

\* The promise of shutdown() resolves; its then-handler disconnects the room.
resolveShutdown ==
  /\ shutdownPc' = "resolved"
  /\ roomState' = IF shutdownPc # "resolved" /\ roomState = "connected"
                  THEN "disconnected" ELSE roomState

\* shutdown(), run in the page by page.evaluate(`shutdown()`).
shutdown ==
  /\ Running
  /\ shutdownPc = "requested"
  /\ pagePc # "absent"
  /\ IF Cardinality(InMap) > 0
     THEN /\ recorderCount' = Cardinality(InMap)
          /\ ApplyStore(unsubscribeAll(Store, InMap, "shutdown"))
          /\ shutdownPc' = "pending"
          /\ UNCHANGED roomState
     ELSE /\ resolveShutdown
          /\ UNCHANGED <<recs, recorders, videos, subscriptionCounts, recorderCount>>
  /\ UNCHANGED <<hostVars, pagePc, participants, subscribed, emptyRoomTimeout,
                 timers, pageIsClosing, onceFired>>
  /\ UNCHANGED auxVars

\* recorder.onstart: recorderCount++
RecorderStart(i) ==
  /\ PageAlive
  /\ ~recs[i].started
  /\ recs[i].phase \in {"recording", "pausing"}
  /\ recs' = [recs EXCEPT ![i].started = TRUE]
  /\ recorderCount' = recorderCount + 1
  /\ UNCHANGED <<hostVars, pagePc, roomState, participants, subscribed,
                 recorders, videos, subscriptionCounts, emptyRoomTimeout,
                 timers, shutdownPc, pageIsClosing, onceFired>>
  /\ UNCHANGED auxVars

\* recorder.onpause: the last data is requested and the recorder stopped.
\* Events are dispatched in the order queued: start before pause.
RecorderPause(i) ==
  /\ PageAlive
  /\ recs[i].phase = "pausing"
  /\ recs[i].started
  /\ recs' = [recs EXCEPT ![i].phase = "stopping"]
  /\ UNCHANGED <<hostVars, pagePc, roomState, participants, subscribed,
                 recorders, videos, subscriptionCounts, recorderCount,
                 emptyRoomTimeout, timers, shutdownPc, pageIsClosing, onceFired>>
  /\ UNCHANGED auxVars

\* recorder.onstop: recorderCount--; stopped_callback(recorderCount)
RecorderStop(i) ==
  /\ PageAlive
  /\ recs[i].phase = "stopping"
  /\ recs[i].cb = "restart" => Len(recs) < MaxRecorders
  /\ recorderCount' = recorderCount - 1
  /\ LET st == [Store EXCEPT !.recs[i].phase = "stopped"]
     IN CASE recs[i].cb = "restart" ->
               /\ ApplyStore(startRecorder(st, recs[i].track))
               /\ UNCHANGED <<shutdownPc, roomState>>
          [] recs[i].cb = "shutdown" /\ recorderCount - 1 <= 0 ->
               /\ ApplyStore(st)
               /\ resolveShutdown
          [] OTHER ->
               /\ ApplyStore(st)
               /\ UNCHANGED <<shutdownPc, roomState>>
  /\ UNCHANGED <<hostVars, pagePc, participants, subscribed, emptyRoomTimeout,
                 timers, pageIsClosing, onceFired>>
  /\ UNCHANGED auxVars


(***************************************************************************)
(* Page: main(token, roomSid) and the room's events, src/app.js 29-114.    *)
(*                                                                         *)
(* A timer of timers is [dur, status, origin]: dur the delay in seconds,   *)
(* status "armed", "fired" or "cancelled", origin "start" (armed by main   *)
(* on an empty room) or "left" (armed when the last participant left).     *)
(***************************************************************************)

\* setTimeout(parentClose, seconds * 1000)
setTimeout(seconds, origin) ==
  /\ timers' = Append(timers, [dur |-> seconds, status |-> "armed", origin |-> origin])
  /\ emptyRoomTimeout' = Len(timers) + 1

\* The handler forgets the timer without clearing it.
clearEmptyRoomTimeoutForgets ==
  /\ timers' = timers
  /\ emptyRoomTimeout' = 0

\* if (emptyRoomTimeout != null) { clearTimeout(...); emptyRoomTimeout = null; }
clearEmptyRoomTimeout ==
  /\ timers' = IF emptyRoomTimeout # 0 /\ timers[emptyRoomTimeout].status = "armed"
               THEN [timers EXCEPT ![emptyRoomTimeout].status = "cancelled"]
               ELSE timers
  /\ emptyRoomTimeout' = 0

\* parentClose(error): an asynchronous call over the bridge.  A call made
\* when the host's guard is already set returns at the guard whenever the
\* host runs it (isClosing is never reset), so it is not kept in flight.
parentClose(error) ==
  IF closeGuard
  THEN parentCloseCalls' = Append(parentCloseCalls, error) /\ UNCHANGED guardHit
  ELSE guardHit' = TRUE /\ UNCHANGED parentCloseCalls

hostRest == <<hostPc, server, browser, page, shouldClose, isClosing, closers,
              stageLog, exitCode>>

\* room = await connect(...) resolves and main runs to its end: P0 are the
\* participants already in the room and T0 their tracks.
PageConnected(P0, T0) ==
  /\ Running
  /\ pagePc = "connecting"
  /\ \A t \in T0 : Identity(t) \in P0
  /\ pagePc' = "running"
  /\ roomState' = "connected"
  /\ participants' = P0
  /\ subscribed' = T0
  /\ IF P0 = {}
     THEN /\ setTimeout(roomStartingTimeoutSeconds, "start")
          /\ UNCHANGED <<recs, recorders, videos, subscriptionCounts>>
     ELSE /\ ApplyStore(recordAll(Store, T0))
          /\ UNCHANGED <<timers, emptyRoomTimeout>>
  /\ UNCHANGED <<hostVars, recorderCount, shutdownPc, pageIsClosing, onceFired>>
  /\ UNCHANGED auxVars

\* room.on('participantConnected', ...)
OnParticipantConnected(p) ==
  /\ PageAlive
  /\ roomState = "connected"
  /\ p \notin participants
  /\ participants' = participants \cup {p}
  /\ clearEmptyRoomTimeout
  /\ UNCHANGED <<hostVars, pagePc, roomState, subscribed, recs, recorders,
                 videos, subscriptionCounts, recorderCount, shutdownPc,
                 pageIsClosing, onceFired>>
  /\ UNCHANGED auxVars

\* The idle timer armed whenever a participant leaves.
lastParticipantLeftAlways(P) == TRUE

\* const participants = [...room.participants.values()];
\* if (!participants.length)
lastParticipantLeft(P) == P = {}

\* room.on('participantDisconnected', ...): the SDK has unsubscribed the
\* participant's tracks and removed it from room.participants.
OnParticipantDisconnected(p) ==
  /\ PageAlive
  /\ roomState = "connected"
  /\ p \in participants
  /\ \A t \in subscribed : Identity(t) # p
  /\ participants' = participants \ {p}
  /\ IF lastParticipantLeft(participants \ {p})
     THEN /\ Len(timers) < MaxTimers
          /\ setTimeout(roomEndingTimeoutSeconds, "left")
     ELSE UNCHANGED <<timers, emptyRoomTimeout>>
  /\ UNCHANGED <<hostVars, pagePc, roomState, subscribed, recs, recorders,
                 videos, subscriptionCounts, recorderCount, shutdownPc,
                 pageIsClosing, onceFired>>
  /\ UNCHANGED auxVars

\* An armed idle timer fires: parentClose() with no argument.
TimerFire(k) ==
  /\ PageAlive
  /\ timers[k].status = "armed"
  /\ timers' = [timers EXCEPT ![k].status = "fired"]
  /\ parentClose("none")
  /\ UNCHANGED <<hostRest, pagePc, roomState, participants, subscribed, recs,
                 recorders, videos, subscriptionCounts, recorderCount,
                 emptyRoomTimeout, shutdownPc, pageIsClosing, onceFired>>
  /\ UNCHANGED auxVars

\* room.on('trackSubscribed', ...) -> trackSubscribed -> record
OnTrackSubscribed(t) ==
  /\ PageAlive
  /\ roomState = "connected"
  /\ t \notin subscribed
  /\ Identity(t) \in participants
  /\ Len(recs) < MaxRecorders
  /\ subscribed' = subscribed \cup {t}
  /\ ApplyStore(record(Store, t))
  /\ UNCHANGED <<hostVars, pagePc, roomState, participants, recorderCount,
                 emptyRoomTimeout, timers, shutdownPc, pageIsClosing, onceFired>>
  /\ UNCHANGED auxVars

\* room.on('trackUnsubscribed', ...) -> trackUnsubscribed(track.id, noop)
OnTrackUnsubscribed(t) ==
  /\ PageAlive
  /\ roomState = "connected"
  /\ t \in subscribed
  /\ subscribed' = subscribed \ {t}
  /\ ApplyStore(trackUnsubscribed(Store, t, "noop"))
  /\ UNCHANGED <<hostVars, pagePc, roomState, participants, recorderCount,
                 emptyRoomTimeout, timers, shutdownPc, pageIsClosing, onceFired>>
  /\ UNCHANGED auxVars

\* The <video> element's resize listener: restart the recording of track t.
OnResize(t) ==
  /\ PageAlive
  /\ Kind(t) = "video"
  /\ videos[Identity(t)] = t
  /\ RecorderBudget > 0
  /\ ApplyStore(trackUnsubscribed(Store, t, "restart"))
  /\ UNCHANGED <<hostVars, pagePc, roomState, participants, subscribed,
                 recorderCount, emptyRoomTimeout, timers, shutdownPc,
                 pageIsClosing, onceFired>>
  /\ UNCHANGED auxVars

\* room.once('disconnected', (room, error) => parentClose(error)): after the
\* page's own room.disconnect() (no error), or when the connection is lost.
OnDisconnected(error) ==
  /\ PageAlive
  /\ "disconnected" \notin onceFired
  /\ \/ roomState = "disconnected" /\ error = "none"
     \/ roomState = "connected"
  /\ roomState' = "disconnected"
  /\ onceFired' = onceFired \cup {"disconnected"}
  /\ parentClose(error)
  /\ UNCHANGED <<hostRest, pagePc, participants, subscribed, recs, recorders,
                 videos, subscriptionCounts, recorderCount, emptyRoomTimeout,
                 timers, shutdownPc, pageIsClosing>>
  /\ UNCHANGED auxVars

\* room.once('room-ended', room => parentClose(`Room ended`))
OnRoomEnded ==
  /\ PageAlive
  /\ roomState = "connected"
  /\ "room-ended" \notin onceFired
  /\ onceFired' = onceFired \cup {"room-ended"}
  /\ parentClose("nostack")
  /\ UNCHANGED <<hostRest, pagePc, roomState, participants, subscribed, recs,
                 recorders, videos, subscriptionCounts, recorderCount,
                 emptyRoomTimeout, timers, shutdownPc, pageIsClosing>>
  /\ UNCHANGED auxVars

\* The data path and the codec at rest.
WriteIdle ==
  /\ wPhase = "none"
  /\ owed = 0
  /\ produced = 0
  /\ reading = {}
  /\ bridge = <<>>
  /\ writing = {}
  /\ file = <<>>
  /\ meta = FALSE

CodecIdle ==
  /\ codecPc = "off"
  /\ buffer = <<>>
  /\ encoded = <<>>
  /\ decoded = <<>>

AuxIdle == WriteIdle /\ CodecIdle

(***************************************************************************)
(* The host and page together.                                             *)
(***************************************************************************)
MainInit ==
  /\ hostPc = "listen"
  /\ server = FALSE
  /\ browser = FALSE
  /\ page = FALSE
  /\ shouldClose = FALSE
  /\ isClosing = FALSE
  /\ closers = <<>>
  /\ stageLog = <<>>
  /\ guardHit = FALSE
  /\ exitCode = -1
  /\ parentCloseCalls = <<>>
  /\ pagePc = "absent"
  /\ roomState = "none"
  /\ participants = {}
  /\ subscribed = {}
  /\ recs = <<>>
  /\ recorders = [t \in TrackIds |-> 0]
  /\ videos = [p \in Participants |-> 0]
  /\ subscriptionCounts = [k \in TrackIndexes |-> 0]
  /\ recorderCount = 0
  /\ emptyRoomTimeout = 0
  /\ timers = <<>>
  /\ shutdownPc = "idle"
  /\ pageIsClosing = FALSE
  /\ onceFired = {}

Init == MainInit /\ AuxIdle

Next ==
  \/ ListenDone
  \/ LaunchDone
  \/ NewPageDone
  \/ GotoDone
  \/ ExposeDone
  \/ EvalMainDone
  \/ StartupFail
  \/ Signal
  \/ HostParentClose
  \/ PageLoaded
  \/ \E i \in 1..Len(closers) : CloseAfterShutdown(i)
  \/ \E i \in 1..Len(closers) : CloseShutdownRejects(i)
  \/ \E i \in 1..Len(closers) : CloseAfterGrace(i)
  \/ \E i \in 1..Len(closers) : CloseAfterPageClose(i)
  \/ \E i \in 1..Len(closers) : CloseAfterBrowserClose(i)
  \/ \E P0 \in SUBSET Participants, T0 \in SUBSET TrackIds : PageConnected(P0, T0)
  \/ \E p \in Participants : OnParticipantConnected(p)
  \/ \E p \in Participants : OnParticipantDisconnected(p)
  \/ \E k \in 1..Len(timers) : TimerFire(k)
  \/ \E t \in TrackIds : OnTrackSubscribed(t)
  \/ \E t \in TrackIds : OnTrackUnsubscribed(t)
  \/ \E t \in TrackIds : OnResize(t)
  \/ \E e \in DisconnectErrors : OnDisconnected(e)
  \/ OnRoomEnded
  \/ shutdown
  \/ \E i \in 1..Len(recs) : RecorderStart(i)
  \/ \E i \in 1..Len(recs) : RecorderPause(i)
  \/ \E i \in 1..Len(recs) : RecorderStop(i)

Spec == Init /\ [][Next]_vars


(***************************************************************************)
(* The same system in a room whose participants publish no recordable      *)
(* track: the host, the room's occupancy and the idle timers.              *)
(***************************************************************************)
NextRoom ==
  \/ ListenDone
  \/ LaunchDone
  \/ NewPageDone
  \/ GotoDone
  \/ ExposeDone
  \/ EvalMainDone
  \/ StartupFail
  \/ Signal
  \/ HostParentClose
  \/ PageLoaded
  \/ \E i \in 1..Len(closers) : CloseAfterShutdown(i)
  \/ \E i \in 1..Len(closers) : CloseShutdownRejects(i)
  \/ \E i \in 1..Len(closers) : CloseAfterGrace(i)
  \/ \E i \in 1..Len(closers) : CloseAfterPageClose(i)
  \/ \E i \in 1..Len(closers) : CloseAfterBrowserClose(i)
  \/ \E P0 \in SUBSET Participants : PageConnected(P0, {})
  \/ \E p \in Participants : OnParticipantConnected(p)
  \/ \E p \in Participants : OnParticipantDisconnected(p)
  \/ \E k \in 1..Len(timers) : TimerFire(k)
  \/ \E e \in DisconnectErrors : OnDisconnected(e)
  \/ OnRoomEnded
  \/ shutdown

SpecRoom == Init /\ [][NextRoom]_vars

(***************************************************************************)
(* SpecSession: the recording session.  It starts where the host's main()  *)
(* has returned (server, browser and page created, the page's main has     *)
(* connected to a room with participant 1 in it, who has published nothing *)
(* yet) and follows the tracks, the recorders and a close of the host     *)
(* requested by a signal.                                                  *)
(***************************************************************************)
InitSession ==
  /\ hostPc = "returned"
  /\ server = TRUE
  /\ browser = TRUE
  /\ page = TRUE
  /\ shouldClose = FALSE
  /\ isClosing = FALSE
  /\ closers = <<>>
  /\ stageLog = <<>>
  /\ guardHit = FALSE
  /\ exitCode = -1
  /\ parentCloseCalls = <<>>
  /\ pagePc = "running"
  /\ roomState = "connected"
  /\ participants = {1}
  /\ subscribed = {}
  /\ recs = <<>>
  /\ recorders = [t \in TrackIds |-> 0]
  /\ videos = [p \in Participants |-> 0]
  /\ subscriptionCounts = [k \in TrackIndexes |-> 0]
  /\ recorderCount = 0
  /\ emptyRoomTimeout = 0
  /\ timers = <<>>
  /\ shutdownPc = "idle"
  /\ pageIsClosing = FALSE
  /\ onceFired = {}
  /\ AuxIdle

NextSession ==
  \/ Signal
  \/ \E i \in 1..Len(closers) : CloseAfterShutdown(i)
  \/ \E i \in 1..Len(closers) : CloseAfterGrace(i)
  \/ \E i \in 1..Len(closers) : CloseAfterPageClose(i)
  \/ \E i \in 1..Len(closers) : CloseAfterBrowserClose(i)
  \/ \E t \in TrackIds : OnTrackSubscribed(t)
  \/ \E t \in TrackIds : OnTrackUnsubscribed(t)
  \/ \E t \in TrackIds : OnResize(t)
  \/ shutdown
  \/ \E i \in 1..Len(recs) : RecorderStart(i)
  \/ \E i \in 1..Len(recs) : RecorderPause(i)
  \/ \E i \in 1..Len(recs) : RecorderStop(i)

SpecSession == InitSession /\ [][NextSession]_vars

(***************************************************************************)
(* SpecWrite: the data path of one Recording File, from startRecorder      *)
(* (src/app.js 263-316) over the bridge to the host's createRecording and  *)
(* appendRecording (src/index.js 94-122).  Chunks are numbered in the      *)
(* order the Recorder produced them; the metadata write is operation 0.    *)
(* The host and session variables are not read here and stay as in Init.   *)
(***************************************************************************)
MaxChunks == 2

mainVars == <<hostVars, pageVars>>

\* startRecorder: createRecording(filepath, metapath, mimeType) is called
\* over the bridge, then recorder.start(10000).
WStartRecorder ==
  /\ wPhase = "none"
  /\ wPhase' = "recording"
  /\ bridge' = Append(bridge, [op |-> "createRecording", chunk |-> 0])
  /\ UNCHANGED <<owed, produced, reading, writing, file, meta, mainVars, codecVars>>

\* recorder.ondataavailable: an empty event is dropped, any other starts a
\* FileReader.readAsArrayBuffer on its data.
ondataavailable(nonEmpty) ==
  IF nonEmpty
  THEN /\ produced' = produced + 1
       /\ reading' = reading \cup {produced + 1}
  ELSE UNCHANGED <<produced, reading>>

\* The 10 s timeslice of a recording Recorder delivers data.
WTimeslice(nonEmpty) ==
  /\ wPhase = "recording"
  /\ nonEmpty => produced < MaxChunks
  /\ ondataavailable(nonEmpty)
  /\ UNCHANGED <<wPhase, owed, bridge, writing, file, meta, mainVars, codecVars>>

\* trackUnsubscribed: recorder.pause()
WPause ==
  /\ wPhase = "recording"
  /\ wPhase' = "pausing"
  /\ UNCHANGED <<owed, produced, reading, bridge, writing, file, meta, mainVars,
                 codecVars>>

\* recorder.onpause: requestData() and stop() each queue a dataavailable
\* event; the stop event follows them.
WOnPause ==
  /\ wPhase = "pausing"
  /\ wPhase' = "stopping"
  /\ owed' = 2
  /\ UNCHANGED <<produced, reading, bridge, writing, file, meta, mainVars, codecVars>>

\* The dataavailable events after pause, through the handler onpause put in
\* place: an empty one returns, any other goes to the original handler.
WFinalData(nonEmpty) ==
  /\ wPhase = "stopping"
  /\ owed > 0
  /\ nonEmpty => produced < MaxChunks
  /\ owed' = owed - 1
  /\ ondataavailable(nonEmpty)
  /\ UNCHANGED <<wPhase, bridge, writing, file, meta, mainVars, codecVars>>

\* recorder.onstop
WOnStop ==
  /\ wPhase = "stopping"
  /\ owed = 0
  /\ wPhase' = "stopped"
  /\ UNCHANGED <<owed, produced, reading, bridge, writing, file, meta, mainVars,
                 codecVars>>

\* fileReader.onload: appendRecording(filepath, arrayBufferToString(buffer),
\* start) is called over the bridge.  Reads complete in any order.
WFileReaderLoad(c) ==
  /\ c \in reading
  /\ reading' = reading \ {c}
  /\ bridge' = Append(bridge, [op |-> "appendRecording", chunk |-> c])
  /\ UNCHANGED <<wPhase, owed, produced, writing, file, meta, mainVars, codecVars>>

\* The host runs the next bridge call: createRecording starts appendFile on
\* the metadata file, appendRecording on the Recording File.  Neither waits
\* for the write to complete.
WHostCall ==
  /\ bridge # <<>>
  /\ bridge' = Tail(bridge)
  /\ writing' = writing \cup {Head(bridge).chunk}
  /\ UNCHANGED <<wPhase, owed, produced, reading, file, meta, mainVars, codecVars>>

\* An fs.appendFile completes; the writes in flight complete in any order.
WAppendFileDone(w) ==
  /\ w \in writing
  /\ writing' = writing \ {w}
  /\ IF w = 0
     THEN meta' = TRUE /\ UNCHANGED file
     ELSE file' = Append(file, w) /\ UNCHANGED meta
  /\ UNCHANGED <<wPhase, owed, produced, reading, bridge, mainVars, codecVars>>

InitWrite == MainInit /\ WriteIdle /\ CodecIdle

NextWrite ==
  \/ WStartRecorder
  \/ \E b \in BOOLEAN : WTimeslice(b)
  \/ WPause
  \/ WOnPause
  \/ \E b \in BOOLEAN : WFinalData(b)
  \/ WOnStop
  \/ \E c \in 1..MaxChunks : WFileReaderLoad(c)
  \/ WHostCall
  \/ \E w \in 0..MaxChunks : WAppendFileDone(w)

SpecWrite == InitWrite /\ [][NextWrite]_vars

(***************************************************************************)
(* SpecCodec: arrayBufferToString (src/app.js 327-345) on the page and     *)
(* stringToArrayBuffer (src/index.js 197-207) on the host.  A string is    *)
(* the sequence of its UTF-16 code units; indexes in the source are        *)
(* 0-based, sequences here 1-based.                                        *)
(***************************************************************************)
blocksize == 8192
MaxBlocks == 2

\* String.fromCharCode(x): the code unit ToUint16(x).
fromCharCode(x) == x % 65536

\* bufView.subarray(begin, end), end clamped to the length.
subarray(bufView, begin, end) ==
  SubSeq(bufView, begin + 1, IF end < Len(bufView) THEN end ELSE Len(bufView))

\* String.fromCharCode.apply(null, bytes)
fromCharCodeApply(bytes) == [k \in 1..Len(bytes) |-> fromCharCode(bytes[k])]

\* for (let i = 0; i < blocklength; i += blocksize) result += ...
RECURSIVE encodeBlocks(_, _, _, _)
encodeBlocks(bufView, i, blocklength, result) ==
  IF i < blocklength
  THEN encodeBlocks(bufView, i + blocksize, blocklength,
                    result \o fromCharCodeApply(subarray(bufView, i, i + blocksize)))
  ELSE result

\* const blocklength = parseInt(length / blocksize) * blocksize
blocklengthOf(length) == (length \div blocksize) * blocksize

\* arrayBufferToString without the append of the last partial block.
arrayBufferToStringNoTail(buf) ==
  encodeBlocks(buf, 0, blocklengthOf(Len(buf)), <<>>)

\* arrayBufferToString(buffer)
arrayBufferToString(buf) ==
  LET length == Len(buf)
      blocklength == blocklengthOf(length)
      result == encodeBlocks(buf, 0, blocklength, <<>>)
  IN IF length > blocklength
     THEN result \o fromCharCodeApply(subarray(buf, blocklength, length))
     ELSE result

\* stringToArrayBuffer(string): bufView[i] = string.charCodeAt(i), stored in
\* a Uint8Array (modulo 256).
stringToArrayBuffer(string) == [k \in 1..Len(string) |-> string[k] % 256]

\* The inputs: every length around the multiples of the block size, filled
\* with the bytes seed, seed + stride, seed + 2 stride, ... modulo 256.
CodecLengths ==
  {k * blocksize + d : k \in 0..MaxBlocks, d \in {0, 1, blocksize - 1}}
CodecSeeds == {0, 128, 255}
CodecStrides == {0, 1, 97}
CodecInput(n, seed, stride) == [k \in 1..n |-> (seed + (k - 1) * stride) % 256]

InitCodec ==
  /\ MainInit
  /\ WriteIdle
  /\ codecPc = "input"
  /\ \E n \in CodecLengths, seed \in CodecSeeds, stride \in CodecStrides :
       buffer = CodecInput(n, seed, stride)
  /\ encoded = <<>>
  /\ decoded = <<>>

\* The page encodes the buffer for appendRecording.
Encode ==
  /\ codecPc = "input"
  /\ encoded' = arrayBufferToString(buffer)
  /\ codecPc' = "encoded"
  /\ UNCHANGED <<buffer, decoded, mainVars, writeVars>>

\* The host decodes the chunk it received.
Decode ==
  /\ codecPc = "encoded"
  /\ decoded' = stringToArrayBuffer(encoded)
  /\ codecPc' = "decoded"
  /\ UNCHANGED <<buffer, encoded, mainVars, writeVars>>

NextCodec == Encode \/ Decode

SpecCodec == InitCodec /\ [][NextCodec]_vars

(***************************************************************************)
(* Properties.                                                             *)
(***************************************************************************)
Stages == {"shutdown", "grace", "serverClose", "pageClose", "browserClose", "exit"}
Count(s) == Cardinality({k \in 1..Len(stageLog) : stageLog[k] = s})
CloseInProgress(i) ==
  closers[i].pc \in {"awaitShutdown", "grace", "awaitPageClose", "awaitBrowserClose"}
Active(i) == recs[i].phase # "stopped"

\* C1: however many times close() is invoked (signals, the start-up error
\* path, main's checkpoints, parentClose from the page), every teardown stage
\* is performed at most once and only one invocation passes the guard.
C1_StagesAtMostOnce ==
  /\ Len(closers) <= 1
  /\ \A s \in Stages : Count(s) <= 1

\* C1 witness: an invocation returned at the guard and the first one ran the
\* whole teardown, each stage once, to process exit.
C1_Witness ==
  /\ guardHit
  /\ exitCode # -1
  /\ \A s \in Stages : Count(s) = 1

\* C2: a close sequence that was triggered reaches process exit: an
\* invocation that passed the guard is still at work or has exited.
C2_CloseReachesExit ==
  isClosing => \/ exitCode # -1
               \/ \E i \in 1..Len(closers) : CloseInProgress(i)

\* C3: when the promise of shutdown() resolves, every Recorder ever started
\* has stopped.
C3_ShutdownResolvesDrained ==
  [][(shutdownPc # "resolved" /\ shutdownPc' = "resolved")
       => \A i \in 1..Len(recs') : recs'[i].phase = "stopped"]_vars

\* C6: recorderCount equals the number of Recorders whose state is recording.
C6_CountIsRecording ==
  recorderCount = Cardinality({i \in 1..Len(recs) : recs[i].phase = "recording"})

ConnectArmsLong ==
  (pagePc = "connecting" /\ pagePc' = "running" /\ participants' = {})
    => /\ timers' = <<[dur |-> roomStartingTimeoutSeconds, status |-> "armed",
                       origin |-> "start"]>>
       /\ emptyRoomTimeout' = 1
       /\ roomStartingTimeoutSeconds > roomEndingTimeoutSeconds
EmptyArmsShort ==
  (pagePc = "running" /\ participants # {} /\ participants' = {})
    => /\ Len(timers') = Len(timers) + 1
       /\ timers'[Len(timers')] = [dur |-> roomEndingTimeoutSeconds,
                                   status |-> "armed", origin |-> "left"]
       /\ emptyRoomTimeout' = Len(timers')
ConnectCancels ==
  /\ (pagePc = "running" /\ participants' # participants /\ participants' # {})
       => /\ \A k \in 1..Len(timers') : timers'[k].status # "armed"
          /\ parentCloseCalls' = parentCloseCalls
  /\ \A k \in 1..Len(timers) :
       timers[k].status = "cancelled" => timers'[k].status = "cancelled"

C8_ExitStatus ==
  \A i \in 1..Len(closers) :
    closers[i].pc \in {"exited", "threw"}
      => exitCode = (IF closers[i].error # "none" THEN 1 ELSE 0)

\* C10: once the host's close guard is set and the page's shutdown() has been
\* invoked, no new Recorder is created.
C10_NoRecorderAfterClose ==
  [][(isClosing /\ shutdownPc \in {"pending", "resolved"})
       => Len(recs') = Len(recs)]_vars


WriteQuiescent ==
  /\ wPhase = "stopped"
  /\ reading = {}
  /\ bridge = <<>>
  /\ writing = {}

\* C4: whatever the order in which the FileReader reads, the bridge calls and
\* the appendFile writes complete, the Recording File ends up holding the
\* Recorder's chunks in the order it produced them.
C4_AppendOrder ==
  WriteQuiescent => file = [k \in 1..produced |-> k]

\* C5: the metadata file has been written before the first data chunk is
\* appended to the Recording File.
C5_MetaBeforeData ==
  file # <<>> => meta

\* C9: the host's decode of the page's encode of a buffer is that buffer;
\* the string has one character per byte, nothing omitted, duplicated or added.
C9_RoundTrip ==
  /\ codecPc \in {"encoded", "decoded"} => Len(encoded) = Len(buffer)
  /\ codecPc = "decoded" => decoded = buffer

\* C9 witness: a buffer of more than one block with a partial last block and
\* the byte values 0 and 255 in it has made the round trip.
C9_Witness ==
  /\ codecPc = "decoded"
  /\ Len(buffer) > blocksize
  /\ Len(buffer) % blocksize # 0
  /\ \E k \in 1..Len(buffer) : buffer[k] = 255
  /\ \E k \in 1..Len(buffer) : buffer[k] = 0
  /\ decoded = buffer

\* The Recorders of track t created after Recorder i that are recording or
\* pausing.
Live(rs, t, i) ==
  {j \in (i + 1)..Len(rs) :
     rs[j].track = t /\ rs[j].phase \in {"recording", "pausing"}}

\* C11: while the Recorder stopped by a resize has not reached stopped, no
\* Recorder created for its track since is recording or pausing; when it
\* reaches stopped, its replacement is created in that step for the same
\* track with the next subscription index, and it is then the only Recorder
\* recording or pausing among those created for that track since the resize.
C11_ResizeRestart ==
  [][\A i \in 1..Len(recs) :
       /\ (recs'[i].cb = "restart" /\ recs'[i].phase # "stopped")
            => Live(recs', recs[i].track, i) = {}
       /\ (recs[i].cb = "restart" /\ recs[i].phase = "stopping"
              /\ recs'[i].phase = "stopped")
            => /\ Len(recs') = Len(recs) + 1
               /\ recs'[Len(recs')].track = recs[i].track
               /\ recs'[Len(recs')].idx = recs[i].idx + 1
               /\ Live(recs', recs[i].track, i) = {Len(recs')}]_vars

\* C12: when a Recorder makes its stopped transition, every non-empty chunk
\* it produced has been handed to appendRecording: no FileReader of it is
\* still to load and call appendRecording afterwards.
C12_StoppedAfterAppends ==
  wPhase = "stopped" => reading = {}

\* C13: a teardown stage is performed only for a resource that was created,
\* and a failure inside a stage (logging the triggering error, the page's
\* shutdown() rejecting) does not end the close sequence: no invocation that
\* passed the guard ends anywhere but in process exit.
C13_FailureDoesNotAbort ==
  /\ Count("shutdown") > 0 => page
  /\ Count("serverClose") > 0 => server
  /\ Count("pageClose") > 0 => page
  /\ Count("browserClose") > 0 => browser
  /\ \A i \in 1..Len(closers) : closers[i].pc # "threw"

\* The stopped transition of Recorder i.
Stops(i) == recs[i].phase # "stopped" /\ recs'[i].phase = "stopped"

\* C14: a Recorder that a stop request has reached keeps the continuation of
\* that request whatever requests follow for its track; it makes one stopped
\* transition, after its start, which decrements recorderCount by one and
\* invokes that continuation with the new count (a restart creates the next
\* Recorder, shutdown's callback resolves when the count is not positive);
\* apart from shutdown's resynchronisation nothing else lowers recorderCount.
C14_StopOnce ==
  [][/\ \A i \in 1..Len(recs) :
          /\ recs[i].phase = "stopped" => recs'[i] = recs[i]
          /\ recs[i].cb # "none"
               => /\ recs'[i].cb = recs[i].cb
                  /\ \A t \in TrackIds : recorders[t] # i /\ recorders'[t] # i
          /\ Stops(i)
               => /\ recs[i].started /\ recs[i].cb # "none"
                  /\ recorderCount' = recorderCount - 1
                  /\ Len(recs') = Len(recs) + (IF recs[i].cb = "restart" THEN 1 ELSE 0)
                  /\ (shutdownPc # "resolved" /\ shutdownPc' = "resolved")
                       <=> (recs[i].cb = "shutdown" /\ recorderCount' <= 0
                              /\ shutdownPc # "resolved")
     /\ (recorderCount' < recorderCount /\ shutdownPc # "requested")
          => \E i \in 1..Len(recs) : Stops(i)]_vars

\* C14 witness: a started Recorder was stopped by a resize, then its track was
\* unsubscribed and the host's close ran shutdown(); it has made its stopped
\* transition and the count is back to 0.
C14_Witness ==
  /\ \E i \in 1..Len(recs) :
       /\ recs[i].phase = "stopped" /\ recs[i].cb = "restart"
       /\ recs[i].track \notin subscribed
  /\ shutdownPc = "resolved"
  /\ recorderCount = 0

Armed == {k \in 1..Len(timers) : timers[k].status = "armed"}

\* C15: after the connect at most one idle timer is outstanding (armed, not
\* fired, not cancelled); when one is, the room has no participant and it is
\* the timer emptyRoomTimeout holds.
C15_OneIdleTimer ==
  /\ Cardinality(Armed) <= 1
  /\ Armed # {} => participants = {} /\ Armed = {emptyRoomTimeout}

\* C15 witness: the timer of the empty room at connect was cancelled by a
\* participant, and the one armed when the last participant left is
\* outstanding.
C15_Witness ==
  /\ Len(timers) = 2
  /\ timers[1].status = "cancelled"
  /\ timers[2].status = "armed"
  /\ participants = {}

\* The stages of close() in their order; "serverClose" is synchronous.
StageOrder ==
  <<"shutdown", "shutdownDone", "grace", "graceDone", "serverClose",
    "pageClose", "pageCloseDone", "browserClose", "browserCloseDone", "exit">>
StagePos(s) == CHOOSE k \in 1..Len(StageOrder) : StageOrder[k] = s
Begun(s) == Count(s) > 0

\* C16: the stages of close() begin in the fixed order, and a stage that is
\* awaited has completed before anything after it begins: the page's
\* shutdown() has resolved before the grace wait, the page's close() has run
\* before the browser is closed, and process exit comes last.
C16_StageOrder ==
  /\ \A k, l \in 1..Len(stageLog) :
       k < l => StagePos(stageLog[k]) < StagePos(stageLog[l])
  /\ \A k \in 1..(Len(stageLog) - 1) :
       stageLog[k] \in {"shutdown", "grace", "pageClose", "browserClose"}
         => StagePos(stageLog[k + 1]) = StagePos(stageLog[k]) + 1
  /\ (Begun("shutdown") /\ Begun("grace")) => shutdownPc = "resolved"
  /\ Begun("pageCloseDone") => pageIsClosing
  /\ exitCode # -1 <=> Begun("exit")

\* C16 witness: a close that ran every stage, in order, to process exit.
C16_Witness ==
  /\ stageLog = StageOrder
  /\ exitCode # -1

\* The Recorders created for the (identity, kind) pair key, in creation order.
RECURSIVE IndexesOf(_, _)
IndexesOf(rs, key) ==
  IF rs = <<>> THEN <<>>
  ELSE IF TrackIndex(Head(rs).track) = key
       THEN <<Head(rs).idx>> \o IndexesOf(Tail(rs), key)
       ELSE IndexesOf(Tail(rs), key)

\* C17: the Recorders of an (identity, kind) pair have the subscription
\* indexes 1, 2, 3, ... in the order they were created, whichever way they
\* were started, so no two Recorders of a session have the same file path.
C17_IndexesIncrease ==
  /\ \A key \in TrackIndexes :
       /\ IndexesOf(recs, key) = [k \in 1..subscriptionCounts[key] |-> k]
  /\ \A i, j \in 1..Len(recs) :
       i # j => <<TrackIndex(recs[i].track), recs[i].idx>>
                  # <<TrackIndex(recs[j].track), recs[j].idx>>

\* C17 witness: a pair with two Recorders, the second created by a resize
\* restart of the first.
C17_Witness ==
  /\ Len(recs) = 2
  /\ recs[1].cb = "restart" /\ recs[1].phase = "stopped" /\ recs[1].idx = 1
  /\ recs[2].track = recs[1].track /\ recs[2].idx = 2
  /\ subscriptionCounts[TrackIndex(recs[1].track)] = 2

\* C18: recorderCount is never negative.
C18_CountNotNegative ==
  recorderCount >= 0

\* C19: a Recorder is started only for a track that is subscribed: after a
\* trackUnsubscribed event none is started until the track is subscribed again.
C19_NoRecorderAfterUnsubscribe ==
  [][\A j \in (Len(recs) + 1)..Len(recs') : recs'[j].track \in subscribed']_vars

\* C20: once a signal has set shouldClose before the page's main was invoked,
\* main is never invoked.
C20_NoMainAfterSignal ==
  [][(shouldClose /\ pagePc \in {"absent", "loaded"})
       => pagePc' \in {"absent", "loaded"}]_vars

\* C20 witness: the signal arrived while the last start-up stage before main
\* was in flight; main() returned at its checkpoint, the page's main was not
\* invoked, and the close ran to process exit.
C20_Witness ==
  /\ shouldClose
  /\ hostPc = "returned"
  /\ pagePc = "loaded"
  /\ exitCode = 0

====
